---- MODULE Spec2Model ----
(***************************************************************************)
(* A model of rootpy.stats: the Workspace wrapper around the native        *)
(* RooWorkspace (rootpy/stats/workspace.py) and mute_roostats              *)
(* (rootpy/stats/__init__.py).                                             *)
(*                                                                         *)
(* The native library is not part of the repository.  Its objects are      *)
(* modelled by what the wrapper can observe of them: a workspace is a map  *)
(* from names to stored objects, a native lookup yields the stored object  *)
(* of the requested class or a null pointer, and the calls fit() makes on  *)
(* native variables are recorded in the order they are made.               *)
(***************************************************************************)
EXTENDS Integers, Sequences, FiniteSets, TLC

(***************************************************************************)
(* Bounds                                                                  *)
(***************************************************************************)
MaxObjects == 2
MaxSets == 1
MaxDictSize == 1

(***************************************************************************)
(* Names, classes and objects                                              *)
(***************************************************************************)
\* names used with the lookups; "zz" is never stored
LookupNames == {"mu", "obsData", "x"}
AllNames == {"ModelConfig", "obsData", "mu", "nu", "x", "zz"}

\* the classes of the objects a workspace holds in this model
StoredClasses ==
    {"RooRealVar", "RooAbsPdf", "RooCategory", "RooAbsData", "ModelConfig", "TList"}

\* classes that may be passed as the cls argument of Workspace.obj
ClsArgs == {"RooRealVar", "RooAbsReal", "RooAbsArg", "RooAbsData", "ModelConfig", "TObject"}

Parent(c) ==
    CASE c = "RooRealVar" -> "RooAbsReal"
      [] c = "RooAbsPdf" -> "RooAbsReal"
      [] c = "RooAbsReal" -> "RooAbsArg"
      [] c = "RooCategory" -> "RooAbsCategory"
      [] c = "RooAbsCategory" -> "RooAbsArg"
      [] c = "RooAbsArg" -> "TObject"
      [] c = "RooAbsData" -> "TObject"
      [] c = "ModelConfig" -> "TObject"
      [] c = "RooArgSet" -> "TObject"
      [] c = "TList" -> "TObject"
      [] OTHER -> "object"

RECURSIVE IsSubclass(_, _)
IsSubclass(c, base) ==
    IF c = base THEN TRUE
    ELSE IF c = "object" \/ c = "null" THEN FALSE
    ELSE IsSubclass(Parent(c), base)

\* a null pointer, which PyROOT presents as an object equal to None
Null == [name |-> "", cls |-> "null", truth |-> FALSE, rootpy |-> FALSE]

\* what can be stored under a name: only an empty collection is false in a
\* boolean context
NoEntry == [cls |-> "null", truth |-> FALSE]
Entries ==
    [cls : StoredClasses, truth : {TRUE}] \cup [cls : {"TList"}, truth : {FALSE}]

NoResult ==
    [op |-> "none", name |-> "", cls |-> "None", exc |-> "none", val |-> Null,
     flag |-> FALSE, coll |-> {}, acc |-> ""]

VARIABLES
    objs,        \* workspace contents: name -> entry (NoEntry when absent)
    namedSets,   \* names of the named sets defined in the workspace
    res,         \* outcome of the last wrapper call
    kill,        \* RooMsgService global kill-below level
    envDEBUG,    \* the environment variable DEBUG: {} when not set, else {value}
    before,      \* kill and envDEBUG when mute_roostats was last entered
    py,          \* major version of the interpreter
    mcPois,      \* parameters of interest of the model config, in order
    pc,          \* position inside Workspace.fit
    args,        \* arguments of the running fit call
    msg_level,   \* local of fit: the saved kill-below level
    entryKill,   \* kill-below level when fit was entered
    calls,       \* native setter calls made by the running fit call
    poiCalls,    \* length of calls when the POI block was left
    minCalls     \* calls of minimize made by the running fit call

vars == <<objs, namedSets, res, kill, envDEBUG, before, py, mcPois, pc, args,
          msg_level, entryKill, calls, poiCalls, minCalls>>

wsVars == <<objs, namedSets>>
msgVars == <<kill, envDEBUG, before>>
fitVars == <<py, mcPois, pc, args, msg_level, entryKill, calls, poiCalls, minCalls>>

(***************************************************************************)
(* Native lookups                                                          *)
(***************************************************************************)
Found(name) ==
    [name |-> name, cls |-> objs[name].cls, truth |-> objs[name].truth,
     rootpy |-> FALSE]

NamedSet(name) ==
    [name |-> name, cls |-> "RooArgSet", truth |-> TRUE, rootpy |-> FALSE]

\* the class a native lookup method casts to
NativeClass(method) ==
    CASE method = "obj" -> "TObject"
      [] method = "arg" -> "RooAbsArg"
      [] method = "cat" -> "RooCategory"
      [] method = "catfunc" -> "RooAbsCategory"
      [] method = "data" -> "RooAbsData"
      [] method = "function" -> "RooAbsReal"
      [] method = "pdf" -> "RooAbsPdf"
      [] method = "var" -> "RooRealVar"
      [] OTHER -> "RooArgSet"

\* super(Workspace, self).<method>(name)
NativeLookup(method, name) ==
    IF method \in {"set", "argSet"}
    THEN IF name \in namedSets THEN NamedSet(name) ELSE Null
    ELSE IF IsSubclass(objs[name].cls, NativeClass(method)) THEN Found(name) ELSE Null

\* thing == None
EqNone(thing) == thing.cls = "null"

\* truth value of thing in `if thing:`
Truth(thing) == IF thing.cls = "null" THEN FALSE ELSE thing.truth

\* asrootpy(thing): the same native object seen through its rootpy class
Asrootpy(thing) == [thing EXCEPT !.rootpy = TRUE]

\* isinstance(thing, cls)
IsInstance(thing, cls) == IsSubclass(thing.cls, cls)

(***************************************************************************)
(* Workspace.__call__ and the native defineSet                             *)
(***************************************************************************)
NumObjects == Cardinality({n \in AllNames : objs[n].cls # "null"})

\* ws(obj): import an object under a name not yet used
Import(name, entry) ==
    /\ pc = "idle"
    /\ objs[name].cls = "null"
    /\ NumObjects < MaxObjects
    /\ objs' = [objs EXCEPT ![name] = entry]
    /\ res' = [NoResult EXCEPT !.op = "import", !.name = name]
    /\ UNCHANGED <<namedSets, msgVars, fitVars>>

\* the inherited RooWorkspace.defineSet
DefineSet(name) ==
    /\ pc = "idle"
    /\ name \notin namedSets
    /\ Cardinality(namedSets) < MaxSets
    /\ namedSets' = namedSets \cup {name}
    /\ res' = [NoResult EXCEPT !.op = "defineSet", !.name = name]
    /\ UNCHANGED <<objs, msgVars, fitVars>>

(***************************************************************************)
(* The named lookups                                                       *)
(***************************************************************************)
Raise(op, name, cls, exc) ==
    [NoResult EXCEPT !.op = op, !.name = name, !.cls = cls, !.exc = exc]

Return(op, name, cls, val) ==
    [NoResult EXCEPT !.op = op, !.name = name, !.cls = cls, !.val = val]

\* the shape shared by arg, argset, category, ..., var
LookupResult(op, method, wrap, name) ==
    LET thing == NativeLookup(method, name) IN
    IF EqNone(thing)
    THEN Raise(op, name, "None", "ValueError")
    ELSE Return(op, name, "None", IF wrap THEN Asrootpy(thing) ELSE thing)

LookupStep(r) ==
    /\ pc = "idle"
    /\ res' = r
    /\ UNCHANGED <<wsVars, msgVars, fitVars>>

GetItem(name) == LookupStep(LookupResult("getitem", "obj", TRUE, name))

ContainsResult(name) ==
    LET thing == NativeLookup("obj", name) IN
    [NoResult EXCEPT !.op = "contains", !.name = name,
                     !.flag = IF Truth(thing) THEN TRUE ELSE FALSE]

Contains(name) == LookupStep(ContainsResult(name))

\* obj with the type check made before the check for existence
ObjResultTypeFirst(name, cls) ==
    LET thing == NativeLookup("obj", name) IN
    IF cls # "None" /\ ~IsInstance(Asrootpy(thing), cls)
    THEN Raise("obj", name, cls, "TypeError")
    ELSE IF EqNone(thing)
         THEN Raise("obj", name, cls, "ValueError")
         ELSE Return("obj", name, cls, Asrootpy(thing))

ObjResult(name, cls) ==
    LET thing == NativeLookup("obj", name) IN
    IF EqNone(thing)
    THEN Raise("obj", name, cls, "ValueError")
    ELSE IF cls # "None" /\ ~IsInstance(Asrootpy(thing), cls)
         THEN Raise("obj", name, cls, "TypeError")
         ELSE Return("obj", name, cls, Asrootpy(thing))

Obj(name, cls) == LookupStep(ObjResult(name, cls))

Arg(name) == LookupStep(LookupResult("arg", "arg", FALSE, name))

Argset(name) == LookupStep(LookupResult("argset", "argSet", FALSE, name))

Category(name) == LookupStep(LookupResult("category", "cat", FALSE, name))

CategoryFunction(name) ==
    LookupStep(LookupResult("category_function", "catfunc", FALSE, name))

Data(name) == LookupStep(LookupResult("data", "data", FALSE, name))

Function(name) == LookupStep(LookupResult("function", "function", FALSE, name))

\* pdf without the check against None: a missing pdf is returned as None
PdfReturnsNone(name) ==
    LookupStep(Return("pdf", name, "None", NativeLookup("pdf", name)))

Pdf(name) == LookupStep(LookupResult("pdf", "pdf", FALSE, name))

Set(name) == LookupStep(LookupResult("set", "set", TRUE, name))

Var(name) == LookupStep(LookupResult("var", "var", TRUE, name))

(***************************************************************************)
(* The collection properties                                               *)
(***************************************************************************)
Properties ==
    {"category_functions", "categories", "datas", "functions", "generic_objects",
     "pdfs", "resolution_models", "vars"}

\* the members of the collection a native all*() accessor returns
NativeAll(acc) ==
    LET Is(n, c) == IsSubclass(objs[n].cls, c) IN
    CASE acc = "allCatFunctions" ->
            {n \in AllNames : Is(n, "RooAbsCategory") /\ ~Is(n, "RooCategory")}
      [] acc = "allCats" -> {n \in AllNames : Is(n, "RooCategory")}
      [] acc = "allData" -> {n \in AllNames : Is(n, "RooAbsData")}
      [] acc = "allFunctions" ->
            {n \in AllNames : Is(n, "RooAbsReal") /\ ~Is(n, "RooAbsPdf")
                                                  /\ ~Is(n, "RooRealVar")}
      [] acc = "allGenericObjects" ->
            {n \in AllNames : Is(n, "TObject") /\ ~Is(n, "RooAbsArg")
                                               /\ ~Is(n, "RooAbsData")}
      [] acc = "allPdfs" -> {n \in AllNames : Is(n, "RooAbsPdf")}
      [] acc = "allResolutionModels" -> {n \in AllNames : Is(n, "RooResolutionModel")}
      [] acc = "allVars" -> {n \in AllNames : Is(n, "RooRealVar")}

CollectionResult(prop, acc, wrap) ==
    [NoResult EXCEPT !.op = prop, !.acc = acc, !.coll = NativeAll(acc),
                     !.val = [name |-> acc, cls |-> "RooArgSet", truth |-> TRUE,
                              rootpy |-> wrap]]

CategoryFunctions ==
    LookupStep(CollectionResult("category_functions", "allCatFunctions", TRUE))

Categories == LookupStep(CollectionResult("categories", "allCats", TRUE))

\* datas is declared without self: the property getter is called with the
\* instance and raises TypeError before its body runs
Datas == LookupStep(Raise("datas", "", "None", "TypeError"))

Functions == LookupStep(CollectionResult("functions", "allFunctions", TRUE))

GenericObjects ==
    LookupStep(CollectionResult("generic_objects", "allGenericObjects", FALSE))

Pdfs == LookupStep(CollectionResult("pdfs", "allPdfs", TRUE))

ResolutionModels ==
    LookupStep(CollectionResult("resolution_models", "allResolutionModels", TRUE))

Vars == LookupStep(CollectionResult("vars", "allVars", TRUE))

(***************************************************************************)
(* mute_roostats and the message service                                   *)
(***************************************************************************)
Levels == {"DEBUG", "INFO", "PROGRESS", "WARNING", "ERROR", "FATAL"}

\* envDEBUG is {} when DEBUG is not in the environment, {v} when it is v
EnvValues == {{}, {""}, {"0"}, {"1"}}

\* truth value of os.environ.get('DEBUG', False)
EnvGetDebug == envDEBUG # {} /\ envDEBUG # {""}

MuteRoostats ==
    /\ pc = "idle"
    /\ before' = [kill |-> kill, env |-> envDEBUG]
    /\ kill' = IF ~EnvGetDebug THEN "WARNING" ELSE kill
    /\ res' = [NoResult EXCEPT !.op = "mute_roostats"]
    /\ UNCHANGED <<wsVars, envDEBUG, fitVars>>

\* the process environment is changed from outside the module
SetEnv(v) ==
    /\ pc = "idle"
    /\ envDEBUG # v
    /\ envDEBUG' = v
    /\ res' = [NoResult EXCEPT !.op = "setenv"]
    /\ UNCHANGED <<wsVars, kill, before, fitVars>>

\* a caller sets the level on the message service directly
SetGlobalKillBelow(level) ==
    /\ pc = "idle"
    /\ kill # level
    /\ kill' = level
    /\ res' = [NoResult EXCEPT !.op = "setGlobalKillBelow"]
    /\ UNCHANGED <<wsVars, envDEBUG, before, fitVars>>

(***************************************************************************)
(* Workspace.fit                                                           *)
(***************************************************************************)
None == [some |-> FALSE, v |-> 0]
NoRange == [some |-> FALSE, v |-> <<0, 0>>]
NoDict == [some |-> FALSE, v |-> <<>>]
Some(x) == [some |-> TRUE, v |-> x]

\* keys of the param_* dicts: a variable of the workspace and a missing name
ParamNames == {"mu", "zz"}
PoiValues == {1}
ParamValues == {2}
PoiRanges == {<<0, 1>>}
ParamRanges == {<<0, 2>>}
PrintLevels == {None, Some(-1), Some(1)}
FitResults == {"fitresult1", "fitresult2"}

\* the dicts over the given keys with at most MaxDictSize entries
Dicts(keys, vals) ==
    UNION {[S -> vals] : S \in {T \in SUBSET keys : Cardinality(T) <= MaxDictSize}}

OptDicts(keys, vals) == {NoDict} \cup {Some(d) : d \in Dicts(keys, vals)}

DefaultArgs ==
    [data_name |-> "obsData", model_config_name |-> "ModelConfig",
     param_const |-> NoDict, param_values |-> NoDict, param_ranges |-> NoDict,
     poi_const |-> FALSE, poi_value |-> None, poi_range |-> NoRange,
     print_level |-> None]

\* calls whose lookups succeed, with every combination of the other arguments
GoodArgs ==
    [data_name : {"obsData"}, model_config_name : {"ModelConfig"},
     param_const : OptDicts(ParamNames, BOOLEAN),
     param_values : OptDicts(ParamNames, ParamValues),
     param_ranges : OptDicts(ParamNames, ParamRanges),
     poi_const : BOOLEAN,
     poi_value : {None} \cup {Some(x) : x \in PoiValues},
     poi_range : {NoRange} \cup {Some(x) : x \in PoiRanges},
     print_level : PrintLevels]

\* calls naming a missing or wrongly typed object
BadNameArgs ==
    {[DefaultArgs EXCEPT !.data_name = d, !.model_config_name = m, !.poi_const = c] :
        d \in {"obsData", "zz"}, m \in {"ModelConfig", "obsData", "zz"}, c \in BOOLEAN}

FitArgs == GoodArgs \cup BadNameArgs

SetConstant(n, b) == [obj |-> n, m |-> "setConstant", b |-> b, v |-> 0, r |-> <<0, 0>>]
SetVal(n, x) == [obj |-> n, m |-> "setVal", b |-> FALSE, v |-> x, r |-> <<0, 0>>]
SetRange(n, x) == [obj |-> n, m |-> "setRange", b |-> FALSE, v |-> 0, r |-> x]

\* var.<setter>(x) on the variable named n
Call(setter, n, x) ==
    CASE setter = "setConstant" -> SetConstant(n, x)
      [] setter = "setVal" -> SetVal(n, x)
      [] setter = "setRange" -> SetRange(n, x)

\* fit leaves by an exception
FitRaise(exc) ==
    /\ pc' = "done"
    /\ res' = Raise("fit", "", "None", exc)

\* the POI block making the POI constant only when poi_const is true
PoiBlockConstIfTrue(a) ==
    IF Len(mcPois) > 0
    THEN LET poi == mcPois[1] IN
         (IF a.poi_const THEN <<SetConstant(poi, TRUE)>> ELSE <<>>)
         \o (IF a.poi_value.some THEN <<SetVal(poi, a.poi_value.v)>> ELSE <<>>)
         \o (IF a.poi_range.some THEN <<SetRange(poi, a.poi_range.v)>> ELSE <<>>)
    ELSE <<>>

\* lines 230-237: the calls made on the first parameter of interest
PoiBlock(a) ==
    IF Len(mcPois) > 0
    THEN LET poi == mcPois[1] IN
         <<SetConstant(poi, a.poi_const)>>
         \o (IF a.poi_value.some THEN <<SetVal(poi, a.poi_value.v)>> ELSE <<>>)
         \o (IF a.poi_range.some THEN <<SetRange(poi, a.poi_range.v)>> ELSE <<>>)
    ELSE <<>>

\* lines 225-237: the lookups and the POI block
FitEnter(a) ==
    /\ pc = "idle"
    /\ args' = a
    /\ entryKill' = kill
    /\ msg_level' = "unbound"
    /\ minCalls' = <<>>
    /\ LET model_config == ObjResult(a.model_config_name, "ModelConfig")
           data == LookupResult("data", "data", FALSE, a.data_name)
       IN  IF model_config.exc # "none"
           THEN FitRaise(model_config.exc) /\ calls' = <<>> /\ poiCalls' = 0
           ELSE IF data.exc # "none"
           THEN FitRaise(data.exc) /\ calls' = <<>> /\ poiCalls' = 0
           ELSE /\ calls' = PoiBlock(a)
                /\ poiCalls' = Len(PoiBlock(a))
                /\ pc' = "param_const"
                /\ res' = [NoResult EXCEPT !.op = "fit_running"]
    /\ UNCHANGED <<wsVars, msgVars, py, mcPois>>

\* the orders in which a dict's items can be iterated
Orders(S) ==
    {o \in [1..Cardinality(S) -> S] : \A i, j \in 1..Cardinality(S) : i # j => o[i] # o[j]}

\* one of the loops of lines 239-250: self.var(name) for each key in
\* iteration order, then the setter; a missing variable ends fit
ParamLoop(here, next, dict, setter) ==
    /\ pc = here
    /\ IF ~dict.some
       THEN /\ pc' = next
            /\ UNCHANGED <<calls, res>>
       ELSE \E o \in Orders(DOMAIN dict.v) :
              LET n == Len(o)
                  missing == {i \in 1..n : LookupResult("var", "var", TRUE, o[i]).exc # "none"}
                  stop == IF missing = {} THEN n + 1
                          ELSE CHOOSE i \in missing : \A j \in missing : i <= j
                  made == [i \in 1..(stop - 1) |-> Call(setter, o[i], dict.v[o[i]])]
              IN  /\ calls' = calls \o made
                  /\ IF stop <= n THEN FitRaise("ValueError")
                     ELSE pc' = next /\ UNCHANGED res
    /\ UNCHANGED <<wsVars, msgVars, py, mcPois, args, msg_level, entryKill, poiCalls,
                   minCalls>>

FitParamConst == ParamLoop("param_const", "param_values", args.param_const, "setConstant")

\* the param_values loop left out
FitParamValuesSkipped ==
    /\ pc = "param_values"
    /\ pc' = "param_ranges"
    /\ UNCHANGED <<wsVars, msgVars, res, py, mcPois, args, msg_level, entryKill, calls,
                   poiCalls, minCalls>>

FitParamValues == ParamLoop("param_values", "param_ranges", args.param_values, "setVal")

FitParamRanges == ParamLoop("param_ranges", "suppress", args.param_ranges, "setRange")

\* print_level < 0: None compares below every number in Python 2 and cannot
\* be ordered against a number in Python 3
LessThanZero(print_level) ==
    IF print_level.some
    THEN IF print_level.v < 0 THEN "true" ELSE "false"
    ELSE IF py = 2 THEN "true" ELSE "TypeError"

\* lines 252-255
FitSuppress ==
    /\ pc = "suppress"
    /\ LET lt == LessThanZero(args.print_level) IN
       CASE lt = "TypeError" ->
              FitRaise("TypeError") /\ UNCHANGED <<kill, msg_level>>
         [] lt = "true" ->
              /\ msg_level' = kill
              /\ kill' = "FATAL"
              /\ pc' = "createNLL"
              /\ UNCHANGED res
         [] lt = "false" ->
              /\ pc' = "createNLL"
              /\ UNCHANGED <<kill, msg_level, res>>
    /\ UNCHANGED <<wsVars, envDEBUG, before, py, mcPois, args, entryKill, calls,
                   poiCalls, minCalls>>

\* line 256: the native createNLL returns the likelihood or raises
FitCreateNLL ==
    /\ pc = "createNLL"
    /\ \E raises \in BOOLEAN :
         IF raises THEN FitRaise("NativeError")
         ELSE pc' = "restore" /\ UNCHANGED res
    /\ UNCHANGED <<wsVars, msgVars, py, mcPois, args, msg_level, entryKill, calls,
                   poiCalls, minCalls>>

\* lines 257-258
FitRestore ==
    /\ pc = "restore"
    /\ kill' = IF LessThanZero(args.print_level) = "true" THEN msg_level ELSE kill
    /\ pc' = "minimize"
    /\ UNCHANGED <<wsVars, envDEBUG, before, res, py, mcPois, args, msg_level,
                   entryKill, calls, poiCalls, minCalls>>

FitResult(r) == [name |-> r, cls |-> "RooFitResult", truth |-> TRUE, rootpy |-> FALSE]

\* line 259: minimize returns a fit result or raises
FitMinimize ==
    /\ pc = "minimize"
    /\ pc' = "done"
    /\ \E raises \in BOOLEAN, r \in FitResults :
         IF raises
         THEN /\ minCalls' = Append(minCalls, [print_level |-> args.print_level,
                                               result |-> Null])
              /\ res' = Raise("fit", "", "None", "MinimizeError")
         ELSE /\ minCalls' = Append(minCalls, [print_level |-> args.print_level,
                                               result |-> FitResult(r)])
              /\ res' = Return("fit", "", "None", FitResult(r))
    /\ UNCHANGED <<wsVars, msgVars, py, mcPois, args, msg_level, entryKill, calls,
                   poiCalls>>

(***************************************************************************)
(* Specifications                                                          *)
(***************************************************************************)
EmptyWorkspace == [n \in AllNames |-> NoEntry]

\* a workspace holding a model config, a data set and two variables
FitWorkspace ==
    [n \in AllNames |->
        CASE n = "ModelConfig" -> [cls |-> "ModelConfig", truth |-> TRUE]
          [] n = "obsData" -> [cls |-> "RooAbsData", truth |-> TRUE]
          [] n \in {"mu", "nu"} -> [cls |-> "RooRealVar", truth |-> TRUE]
          [] OTHER -> NoEntry]

InitCommon ==
    /\ namedSets = {}
    /\ res = NoResult
    /\ envDEBUG = {}
    /\ before = [kill |-> "INFO", env |-> {}]
    /\ pc = "idle"
    /\ args = DefaultArgs
    /\ msg_level = "unbound"
    /\ calls = <<>>
    /\ poiCalls = 0
    /\ minCalls = <<>>

\* the lookups on a workspace that is filled by imports
Init ==
    /\ InitCommon
    /\ objs = EmptyWorkspace
    /\ kill = "INFO"
    /\ entryKill = "INFO"
    /\ py = 2
    /\ mcPois = <<>>

Next ==
    \/ \E n \in LookupNames, e \in Entries : Import(n, e)
    \/ \E n \in LookupNames : DefineSet(n)
    \/ \E n \in LookupNames : GetItem(n)
    \/ \E n \in LookupNames : Contains(n)
    \/ \E n \in LookupNames, c \in ClsArgs \cup {"None"} : Obj(n, c)
    \/ \E n \in LookupNames : Arg(n)
    \/ \E n \in LookupNames : Argset(n)
    \/ \E n \in LookupNames : Category(n)
    \/ \E n \in LookupNames : CategoryFunction(n)
    \/ \E n \in LookupNames : Data(n)
    \/ \E n \in LookupNames : Function(n)
    \/ \E n \in LookupNames : Pdf(n)
    \/ \E n \in LookupNames : Set(n)
    \/ \E n \in LookupNames : Var(n)
    \/ CategoryFunctions
    \/ Categories
    \/ Datas
    \/ Functions
    \/ GenericObjects
    \/ Pdfs
    \/ ResolutionModels
    \/ Vars

Spec == Init /\ [][Next]_vars

\* one call of fit on a workspace that holds a model, entered at the level the
\* message service starts with or at the one mute_roostats has set; pc stays
\* "done" once the call is left
InitFit ==
    /\ InitCommon
    /\ objs = FitWorkspace
    /\ kill = "INFO"
    /\ entryKill = "INFO"
    /\ py \in {2, 3}
    /\ mcPois \in {<<>>, <<"mu", "nu">>, <<"nu", "mu">>}

NextFit ==
    \/ \E a \in FitArgs : FitEnter(a)
    \/ FitParamConst
    \/ FitParamValues
    \/ FitParamRanges
    \/ FitSuppress
    \/ FitCreateNLL
    \/ FitRestore
    \/ FitMinimize
    \/ MuteRoostats

SpecFit == InitFit /\ [][NextFit]_vars

\* mute_roostats under every environment and level
InitMute ==
    /\ InitCommon
    /\ objs = EmptyWorkspace
    /\ kill = "INFO"
    /\ entryKill = "INFO"
    /\ py = 2
    /\ mcPois = <<>>

NextMute ==
    \/ MuteRoostats
    \/ \E v \in EnvValues : SetEnv(v)
    \/ \E l \in Levels : SetGlobalKillBelow(l)

SpecMute == InitMute /\ [][NextMute]_vars

(***************************************************************************)
(* Properties of the lookups                                               *)
(***************************************************************************)
LookupOps ==
    {"getitem", "obj", "arg", "argset", "category", "category_function", "data",
     "function", "pdf", "set", "var"}

\* the native method behind each named lookup
NativeOf(op) ==
    CASE op \in {"getitem", "obj"} -> "obj"
      [] op = "arg" -> "arg"
      [] op = "argset" -> "argSet"
      [] op = "category" -> "cat"
      [] op = "category_function" -> "catfunc"
      [] op = "data" -> "data"
      [] op = "function" -> "function"
      [] op = "pdf" -> "pdf"
      [] op = "set" -> "set"
      [] op = "var" -> "var"

C1_Outcome ==
    res.op \in LookupOps =>
        LET found == NativeLookup(NativeOf(res.op), res.name) IN
        /\ found = Null => res.exc = "ValueError"
        /\ (found # Null /\ res.cls = "None") =>
              /\ res.exc = "none"
              /\ res.val.name = found.name
              /\ res.val.cls = found.cls
        /\ res.exc = "none" => res.val # Null

C1_Frame == res'.op \in LookupOps => UNCHANGED wsVars

\* C1: every named lookup raises ValueError when the native lookup finds
\* nothing and otherwise returns the found object; no lookup returns None and
\* no lookup changes the contents of the workspace.
C1_LookupRaisesOrReturnsFound == []C1_Outcome /\ [][C1_Frame]_vars

\* var() of a name that is stored, but not as a RooRealVar, raised ValueError
C1_Witness ==
    /\ res.op = "var"
    /\ res.exc = "ValueError"
    /\ objs[res.name].cls = "RooAbsPdf"

\* C2: obj(name, cls) raises ValueError for a missing name whatever cls is,
\* raises TypeError when the object exists and is not an instance of a given
\* cls, and returns the object otherwise; cls None makes no type check.
C2_ObjChecksExistenceThenType ==
    res.op = "obj" =>
        IF objs[res.name].cls = "null"
        THEN res.exc = "ValueError"
        ELSE IF res.cls # "None" /\ ~IsSubclass(objs[res.name].cls, res.cls)
        THEN res.exc = "TypeError"
        ELSE /\ res.exc = "none"
             /\ res.val.name = res.name
             /\ res.val.cls = objs[res.name].cls

\* obj() of a stored data set with cls RooAbsArg raised TypeError
C2_Witness ==
    /\ res.op = "obj"
    /\ res.exc = "TypeError"
    /\ res.cls = "RooAbsArg"
    /\ objs[res.name].cls = "RooAbsData"

\* C8: `name in ws` is True exactly when ws[name] returns an object, also for
\* a stored object that is false in a boolean context.
C8_ContainsAgreesWithGetItem ==
    res.op = "contains" =>
        (res.flag <=> LookupResult("getitem", "obj", TRUE, res.name).exc = "none")

\* the native accessor each collection property stands for
AccessorOf(prop) ==
    CASE prop = "category_functions" -> "allCatFunctions"
      [] prop = "categories" -> "allCats"
      [] prop = "datas" -> "allData"
      [] prop = "functions" -> "allFunctions"
      [] prop = "generic_objects" -> "allGenericObjects"
      [] prop = "pdfs" -> "allPdfs"
      [] prop = "resolution_models" -> "allResolutionModels"
      [] prop = "vars" -> "allVars"

\* C9: every collection property can be read on any workspace and yields the
\* collection of the corresponding native all*() accessor without raising.
C9_PropertiesYieldNativeCollections ==
    res.op \in Properties =>
        /\ res.exc = "none"
        /\ res.acc = AccessorOf(res.op)
        /\ res.coll = NativeAll(AccessorOf(res.op))

(***************************************************************************)
(* Properties of mute_roostats                                             *)
(***************************************************************************)
\* C7: with DEBUG unset mute_roostats sets the kill-below level to WARNING
\* whatever it was; with DEBUG set to any value it leaves the level unchanged.
C7_MuteUnlessDebugSet ==
    res.op = "mute_roostats" =>
        IF before.env = {} THEN kill = "WARNING" ELSE kill = before.kill

(***************************************************************************)
(* Properties of fit                                                       *)
(***************************************************************************)
\* the running call got past the lookups of lines 225-227
LookupsSucceeded ==
    /\ pc # "idle"
    /\ IsSubclass(objs[args.model_config_name].cls, "ModelConfig")
    /\ IsSubclass(objs[args.data_name].cls, "RooAbsData")

\* C3: with print_level None fit never changes the global kill-below level
\* and does not raise because of print_level.
C3_NonePrintLevelLeavesKillBelow ==
    (LookupsSucceeded /\ ~args.print_level.some) =>
        /\ kill = entryKill
        /\ ~(pc = "done" /\ res.exc = "TypeError")

\* C4: with a negative print_level the kill-below level is FATAL when the NLL
\* is created, and on every exit after the level was changed it is again the
\* level fit was entered with.
C4_NegativePrintLevelRestoresKillBelow ==
    (LookupsSucceeded /\ args.print_level.some /\ args.print_level.v < 0) =>
        /\ pc = "createNLL" => kill = "FATAL"
        /\ (pc = "done" /\ msg_level # "unbound") => kill = entryKill

\* the calls made in the POI block, and those made after it
PoiPhase == SubSeq(calls, 1, poiCalls)
ParamPhase == SubSeq(calls, poiCalls + 1, Len(calls))

\* the calls of method m in seq
CallsOf(seq, m) ==
    LET IsM(c) == c.m = m IN SelectSeq(seq, IsM)

\* C5: the POI arguments act on the first parameter of interest only: one
\* setConstant(poi_const) on every call, setVal(poi_value) iff poi_value is
\* not None, setRange(poi_range) iff poi_range is not None; nothing at all
\* when the model config has no parameter of interest.
C5_PoiArgumentsActOnFirstPoi ==
    LookupsSucceeded =>
        IF Len(mcPois) = 0
        THEN PoiPhase = <<>>
        ELSE /\ \A i \in 1..Len(PoiPhase) : PoiPhase[i].obj = mcPois[1]
             /\ Len(CallsOf(PoiPhase, "setConstant")) = 1
             /\ CallsOf(PoiPhase, "setConstant")[1].b = args.poi_const
             /\ Len(CallsOf(PoiPhase, "setVal")) = (IF args.poi_value.some THEN 1 ELSE 0)
             /\ args.poi_value.some =>
                    CallsOf(PoiPhase, "setVal")[1].v = args.poi_value.v
             /\ Len(CallsOf(PoiPhase, "setRange")) = (IF args.poi_range.some THEN 1 ELSE 0)
             /\ args.poi_range.some =>
                    CallsOf(PoiPhase, "setRange")[1].r = args.poi_range.v

\* the POI block set the constant flag and the value and left the range
C5_Witness ==
    /\ pc = "param_const"
    /\ Len(mcPois) = 2
    /\ args.poi_const
    /\ args.poi_value.some
    /\ ~args.poi_range.some
    /\ Len(calls) = 2

\* the calls of method m made on variable n by the running fit call
CallsOn(n, m) ==
    LET IsNM(c) == c.obj = n /\ c.m = m IN SelectSeq(calls, IsNM)

Last(seq) == seq[Len(seq)]

Keys(dict) == IF dict.some THEN DOMAIN dict.v ELSE {}

Rank(m) == CASE m = "setConstant" -> 1 [] m = "setVal" -> 2 [] m = "setRange" -> 3

C6_AtMinimize ==
    pc = "minimize" =>
        /\ \A n \in Keys(args.param_const) :
              /\ CallsOn(n, "setConstant") # <<>>
              /\ Last(CallsOn(n, "setConstant")).b = args.param_const.v[n]
        /\ \A n \in Keys(args.param_values) :
              /\ CallsOn(n, "setVal") # <<>>
              /\ Last(CallsOn(n, "setVal")).v = args.param_values.v[n]
        /\ \A n \in Keys(args.param_ranges) :
              /\ CallsOn(n, "setRange") # <<>>
              /\ Last(CallsOn(n, "setRange")).r = args.param_ranges.v[n]
        /\ \A i, j \in 1..Len(ParamPhase) :
              i < j => Rank(ParamPhase[i].m) <= Rank(ParamPhase[j].m)
        /\ Len(CallsOf(ParamPhase, "setConstant")) = Cardinality(Keys(args.param_const))
        /\ Len(CallsOf(ParamPhase, "setVal")) = Cardinality(Keys(args.param_values))
        /\ Len(CallsOf(ParamPhase, "setRange")) = Cardinality(Keys(args.param_ranges))
        /\ \A n \in AllNames :
              /\ n \notin Keys(args.param_const)
              /\ n \notin Keys(args.param_values)
              /\ n \notin Keys(args.param_ranges)
              /\ (Len(mcPois) = 0 \/ n # mcPois[1])
              => \A i \in 1..Len(calls) : calls[i].obj # n
        /\ minCalls = <<>>

C6_AtExit ==
    /\ Len(minCalls) <= 1
    /\ minCalls # <<>> => pc = "done"
    /\ (pc = "done" /\ res.exc = "none") =>
          /\ Len(minCalls) = 1
          /\ res.val = minCalls[1].result
          /\ res.val # Null

\* C6: when minimize is invoked every param_const, param_values and
\* param_ranges entry has been applied, after the POI settings and in the
\* order const, values, ranges, so a param_* entry wins over the poi_*
\* argument; variables named nowhere are not touched; minimize is called
\* once, after all settings, and fit returns its result.
C6_ParamSettingsBeforeSingleMinimize == C6_AtMinimize /\ C6_AtExit

\* fit returned after param_values overrode poi_value on the first POI
C6_Witness ==
    /\ pc = "done"
    /\ res.exc = "none"
    /\ Len(mcPois) = 2
    /\ mcPois[1] = "mu"
    /\ args.poi_value.some
    /\ args.param_values.some
    /\ "mu" \in DOMAIN args.param_values.v
    /\ args.param_values.v["mu"] # args.poi_value.v
    /\ Last(CallsOn("mu", "setVal")).v = args.param_values.v["mu"]

====
